---- MODULE Spec2Model ----
(***************************************************************************)
(* Contextual memory and action core of the pregnancy companion backend:   *)
(* ChatRouter.process_message (one conversation turn), the ActionPlanner   *)
(* (analyze_user_needs, execute_action and its nine handlers) and the      *)
(* MemoryManager / UserProfileManager operations they call.                *)
(*                                                                         *)
(* Collaborators (profile store, memory store, content-generation model)   *)
(* may fail at every call; each call's outcome is a nondeterministic       *)
(* choice.                                                                 *)
(***************************************************************************)
EXTENDS Integers, Sequences, FiniteSets, TLC

\* ------------------------------------------------------------------------
\* Bounds of the model
\* ------------------------------------------------------------------------
MaxTurns == 2
MaxDirect == 2
MaxPlan == 4
MaxPriority == 3
MaxDocs == 3
MaxMemories == 2
MaxLimit == 1

Users == {"u1", "u2"}

\* ------------------------------------------------------------------------
\* Program constants
\* ------------------------------------------------------------------------
TopN == 3
Threshold == 2
MinWeek == 1
MaxWeek == 42
DaysPerWeek == 7
NoWeek == 0
NoLmp == -1

Min(a, b) == IF a <= b THEN a ELSE b
Max(a, b) == IF a >= b THEN a ELSE b

\* ------------------------------------------------------------------------
\* Profiles (UserProfile).  pregnancy_week = NoWeek stands for None,
\* lmp_days is (today - lmp_date).days, NoLmp stands for lmp_date = None,
\* docs is len(medical_documents).
\* ------------------------------------------------------------------------
NoProfile == [exists |-> FALSE, pregnancy_week |-> NoWeek, lmp_days |-> NoLmp, docs |-> 0]

UserProfile(w, l, d) == [exists |-> TRUE, pregnancy_week |-> w, lmp_days |-> l, docs |-> d]

ProfileChoices ==
    { NoProfile,
      UserProfile(20, 140, 1),
      UserProfile(20, 147, 1),
      UserProfile(20, NoLmp, 1),
      UserProfile(NoWeek, NoLmp, 1),
      UserProfile(NoWeek, 310, 0),
      UserProfile(NoWeek, 3, 0) }

\* UserProfileManager.calculate_pregnancy_week
calculate_pregnancy_week(lmp_days) ==
    Max(MinWeek, Min(MaxWeek, lmp_days \div DaysPerWeek))

\* ------------------------------------------------------------------------
\* The action catalog
\* ------------------------------------------------------------------------
available_actions ==
    { "schedule_appointment", "upload_document", "medical_review",
      "pregnancy_update", "reminder", "emergency_contact",
      "pregnancy_education", "symptom_tracking", "contraction_tracking" }

UnknownKind == "unknown_kind"

Action(kind, prio) == [action_type |-> kind, priority |-> prio, completed |-> FALSE]

\* ------------------------------------------------------------------------
\* Conversation context handed to the planner and the handlers.
\*   nonempty      the dict is truthy
\*   serialisable  json.dumps(context) succeeds (no datetime inside)
\*   contraction   context.get("contraction_data") is truthy
\* ------------------------------------------------------------------------
EmptyContext == [nonempty |-> FALSE, serialisable |-> TRUE, contraction |-> FALSE]

\* the dict built by _get_conversation_context: user_profile.dict() carries
\* created_at / updated_at datetimes, so json.dumps raises TypeError on it
FullContext == [nonempty |-> TRUE, serialisable |-> FALSE, contraction |-> FALSE]

PlainContext == [nonempty |-> TRUE, serialisable |-> TRUE, contraction |-> FALSE]

ContractionContext == [nonempty |-> TRUE, serialisable |-> TRUE, contraction |-> TRUE]

Contexts == {EmptyContext, FullContext, PlainContext, ContractionContext}

\* ------------------------------------------------------------------------
\* Content-generation collaborator (AIModel)
\* ------------------------------------------------------------------------
AIOutcomes == {"transport_error", "non_json", "json_object", "json_non_object"}

\* AIModel.generate_response: never raises, a transport error becomes a
\* fixed (non JSON) apology text
generate_response(ai) ==
    IF ai = "transport_error" THEN "non_json" ELSE ai

\* json.loads with the bare except around it: a text that does not parse is
\* replaced by the default mapping, a text that parses is returned as it is,
\* mapping or not
ParseOrDefault(text) ==
    CASE text = "non_json" -> "default_mapping"
      [] text = "json_object" -> "mapping"
      [] text = "json_non_object" -> "non_mapping"

\* generate_pregnancy_week_insights, analyze_contractions, ...: the prompt
\* is built with json.dumps(context) when the context is truthy; a context
\* that does not serialise raises inside the try and the outer except
\* returns the fixed mapping
GenerateWithContext(ctx, ai) ==
    IF ctx.nonempty /\ ~ctx.serialisable
    THEN "default_mapping"
    ELSE ParseOrDefault(generate_response(ai))

\* AIModel.generate_medical_review: json.dumps(documents) on a non-empty
\* list of MedicalDocument.dict() (upload_date is a datetime) raises and
\* the outer except returns the fixed mapping
generate_medical_review(docs, ai) ==
    IF docs > 0
    THEN "default_mapping"
    ELSE ParseOrDefault(generate_response(ai))

\* value.get(key, default): AttributeError unless the value is a mapping
GetRaises(value) == value = "non_mapping"

\* ------------------------------------------------------------------------
\* Outcomes of the collaborator calls made by one handler
\*   pget  get_user_profile raises
\*   pupd  update_user_profile: "ok", "update_fails" (update_one raises),
\*         "reread_fails" (the read after the update raises)
\*   mins  memories_collection.insert_one raises
\*   ai    what the model endpoint answers
\* ------------------------------------------------------------------------
UpdateOutcomes == {"ok", "update_fails", "reread_fails"}

Outcomes ==
    [pget : BOOLEAN, pupd : UpdateOutcomes, mins : BOOLEAN, ai : AIOutcomes]

NoFailure == [pget |-> FALSE, pupd |-> "ok", mins |-> FALSE, ai |-> "json_object"]

\* the outcomes of a piece of code that only reads the profile store
ProfileReadOutcomes == { [NoFailure EXCEPT !.pget = b] : b \in BOOLEAN }

\* the outcomes of a piece of code that reads the profile store and calls
\* the model
ReadAndGenerateOutcomes ==
    { [NoFailure EXCEPT !.pget = b, !.ai = a] : b \in BOOLEAN, a \in AIOutcomes }

\* ------------------------------------------------------------------------
\* Memory records (MemoryManager.store_memory).  importance is in tenths.
\* ------------------------------------------------------------------------
Memory(u, type, imp, week) ==
    [user_id |-> u, memory_type |-> type, importance |-> imp, week |-> week]

\* store_memory with a retry that inserts the record a second time
store_memory_Twice(u, type, imp, week, f) ==
    IF f.mins
    THEN [raised |-> TRUE, inserts |-> << >>]
    ELSE [raised |-> FALSE,
          inserts |-> << Memory(u, type, imp, week), Memory(u, type, imp, week) >>]

\* MemoryManager.store_memory: one insert_one, raises when the store fails
store_memory(u, type, imp, week, f) ==
    IF f.mins
    THEN [raised |-> TRUE, inserts |-> << >>]
    ELSE [raised |-> FALSE, inserts |-> << Memory(u, type, imp, week) >>]

\* MemoryManager.store_medical_memory
store_medical_memory(u, imp, f) == store_memory(u, "medical", imp, NoWeek, f)

\* MemoryManager.store_pregnancy_memory
store_pregnancy_memory(u, week, imp, f) == store_memory(u, "pregnancy", imp, week, f)

\* ------------------------------------------------------------------------
\* Handler results
\* ------------------------------------------------------------------------
HandlerResult(status, message, inserts, P, generated) ==
    [status |-> status, message |-> message, inserts |-> inserts,
     profiles |-> P, generated |-> generated]

ExceptionText == "str(e)"

ErrorResult(P, generated) == HandlerResult("error", ExceptionText, << >>, P, generated)

\* UserProfileManager.get_user_medical_documents
get_user_medical_documents(u, P) == IF P[u].exists THEN P[u].docs ELSE 0

\* an update whose write is lost
update_user_profile_Lost(u, week, P) == P

\* UserProfileManager.update_user_profile, the $set of the week
update_user_profile(u, week, P) ==
    IF P[u].exists
    THEN [P EXCEPT ![u].pregnancy_week = week]
    ELSE P

\* ------------------------------------------------------------------------
\* The nine handlers.  Each takes the user, the context, the outcomes f of
\* its collaborator calls and the profile store P, and returns the result
\* dict, the memory records it inserted and the profile store it leaves.
\* Every handler body is wrapped in try/except returning an error result.
\* ------------------------------------------------------------------------

\* _medical_review without the check for an empty document list
_medical_review_NoDocumentCheck(u, ctx, f, P) ==
    IF f.pget
    THEN ErrorResult(P, FALSE)
    ELSE LET documents == get_user_medical_documents(u, P)
             ai_review == generate_medical_review(documents, f.ai)
             stored == store_medical_memory(u, 9, f)
         IN  IF GetRaises(ai_review) \/ stored.raised
             THEN ErrorResult(P, TRUE)
             ELSE HandlerResult("success", "Medical review completed",
                                stored.inserts, P, TRUE)

\* ActionPlanner._medical_review
_medical_review(u, ctx, f, P) ==
    IF f.pget
    THEN ErrorResult(P, FALSE)
    ELSE LET documents == get_user_medical_documents(u, P) IN
         IF documents = 0
         THEN HandlerResult("info", "No medical documents found for review", << >>, P, FALSE)
         ELSE LET ai_review == generate_medical_review(documents, f.ai)
                  stored == store_medical_memory(u, 9, f)
              IN  IF GetRaises(ai_review) \/ stored.raised
                  THEN ErrorResult(P, TRUE)
                  ELSE HandlerResult("success", "Medical review completed",
                                     stored.inserts, P, TRUE)

\* ActionPlanner._pregnancy_update
_pregnancy_update(u, ctx, f, P) ==
    IF f.pget
    THEN ErrorResult(P, FALSE)
    ELSE IF P[u].exists /\ P[u].lmp_days # NoLmp
         THEN LET current_week == calculate_pregnancy_week(P[u].lmp_days) IN
              IF current_week # P[u].pregnancy_week
              THEN IF f.pupd = "update_fails"
                   THEN ErrorResult(P, FALSE)
                   ELSE LET P2 == update_user_profile(u, current_week, P)
                            week_insights == GenerateWithContext(ctx, f.ai)
                            stored == store_pregnancy_memory(u, current_week, 8, f)
                        IN  IF f.pupd = "reread_fails"
                            THEN ErrorResult(P2, FALSE)
                            ELSE IF GetRaises(week_insights) \/ stored.raised
                                 THEN ErrorResult(P2, TRUE)
                                 ELSE HandlerResult("success", "Pregnancy week updated",
                                                    stored.inserts, P2, TRUE)
              ELSE HandlerResult("info", "Pregnancy week is up to date", << >>, P, FALSE)
         ELSE HandlerResult("info", "Pregnancy week is up to date", << >>, P, FALSE)

\* ActionPlanner._pregnancy_education
_pregnancy_education(u, ctx, f, P) ==
    IF f.pget
    THEN ErrorResult(P, FALSE)
    ELSE LET week == IF P[u].exists THEN P[u].pregnancy_week ELSE NoWeek IN
         IF week # NoWeek
         THEN LET stored == store_pregnancy_memory(u, week, 6, f) IN
              IF stored.raised
              THEN ErrorResult(P, TRUE)
              ELSE HandlerResult("success", "Pregnancy education", stored.inserts, P, TRUE)
         ELSE HandlerResult("info", "Pregnancy week information needed for education",
                            << >>, P, FALSE)

\* ActionPlanner._contraction_tracking
_contraction_tracking(u, ctx, f, P) ==
    IF ctx.contraction
    THEN LET ai_analysis == GenerateWithContext(ctx, f.ai)
             stored == store_pregnancy_memory(u, 0, 9, f)
         IN  IF GetRaises(ai_analysis) \/ stored.raised
             THEN ErrorResult(P, TRUE)
             ELSE HandlerResult("success", "Contraction analysis completed",
                                stored.inserts, P, TRUE)
    ELSE HandlerResult("info", "Contraction data needed for analysis", << >>, P, FALSE)

\* ActionPlanner._schedule_appointment
_schedule_appointment(u, ctx, f, P) ==
    LET stored == store_memory(u, "appointment", 8, NoWeek, f) IN
    IF stored.raised
    THEN ErrorResult(P, TRUE)
    ELSE HandlerResult("success", "Appointment scheduling", stored.inserts, P, TRUE)

\* ActionPlanner._upload_document
_upload_document(u, ctx, f, P) ==
    HandlerResult("success", "Document upload available", << >>, P, TRUE)

\* a reminder handler that files its memory under the kind "task"
_create_reminder_AsTask(u, ctx, f, P) ==
    LET stored == store_memory(u, "task", 7, NoWeek, f) IN
    IF stored.raised
    THEN ErrorResult(P, TRUE)
    ELSE HandlerResult("success", "AI-optimized reminder created", stored.inserts, P, TRUE)

\* ActionPlanner._create_reminder
_create_reminder(u, ctx, f, P) ==
    LET stored == store_memory(u, "reminder", 7, NoWeek, f) IN
    IF stored.raised
    THEN ErrorResult(P, TRUE)
    ELSE HandlerResult("success", "AI-optimized reminder created", stored.inserts, P, TRUE)

\* ActionPlanner._emergency_contact
_emergency_contact(u, ctx, f, P) ==
    IF f.pget
    THEN ErrorResult(P, FALSE)
    ELSE HandlerResult("success", "Emergency contact information", << >>, P, TRUE)

\* ActionPlanner._symptom_tracking
_symptom_tracking(u, ctx, f, P) ==
    LET stored == store_pregnancy_memory(u, 0, 7, f) IN
    IF stored.raised
    THEN ErrorResult(P, TRUE)
    ELSE HandlerResult("success", "AI symptom tracking initiated", stored.inserts, P, TRUE)

\* the dispatch table ActionPlanner.available_actions
Handler(kind, u, ctx, f, P) ==
    CASE kind = "schedule_appointment" -> _schedule_appointment(u, ctx, f, P)
      [] kind = "upload_document" -> _upload_document(u, ctx, f, P)
      [] kind = "medical_review" -> _medical_review(u, ctx, f, P)
      [] kind = "pregnancy_update" -> _pregnancy_update(u, ctx, f, P)
      [] kind = "reminder" -> _create_reminder(u, ctx, f, P)
      [] kind = "emergency_contact" -> _emergency_contact(u, ctx, f, P)
      [] kind = "pregnancy_education" -> _pregnancy_education(u, ctx, f, P)
      [] kind = "symptom_tracking" -> _symptom_tracking(u, ctx, f, P)
      [] kind = "contraction_tracking" -> _contraction_tracking(u, ctx, f, P)

UnknownActionResult(P) == HandlerResult("error", "Unknown action type", << >>, P, FALSE)

\* execute_action that marks the action completed only on a success result
execute_action_CompletedOnSuccess(action, u, ctx, f, P) ==
    IF action.action_type \in available_actions
    THEN LET res == Handler(action.action_type, u, ctx, f, P) IN
         [result |-> res,
          completed |-> (action.completed \/ res.status = "success"),
          invoked |-> TRUE]
    ELSE [result |-> UnknownActionResult(P),
          completed |-> action.completed, invoked |-> FALSE]

\* execute_action that marks the action completed before looking it up
execute_action_MarksFirst(action, u, ctx, f, P) ==
    IF action.action_type \in available_actions
    THEN [result |-> Handler(action.action_type, u, ctx, f, P),
          completed |-> TRUE, invoked |-> TRUE]
    ELSE [result |-> UnknownActionResult(P),
          completed |-> TRUE, invoked |-> FALSE]

\* ActionPlanner.execute_action: the result, the action's completed flag
\* after the call, and whether a handler was invoked.  No handler raises
\* (each catches everything), so the except branch is never taken.
execute_action(action, u, ctx, f, P) ==
    IF action.action_type \in available_actions
    THEN [result |-> Handler(action.action_type, u, ctx, f, P),
          completed |-> TRUE, invoked |-> TRUE]
    ELSE [result |-> UnknownActionResult(P),
          completed |-> action.completed, invoked |-> FALSE]

\* ------------------------------------------------------------------------
\* Planner
\* ------------------------------------------------------------------------

\* an insertion that puts a before the elements of equal priority
RECURSIVE InsertByPriority_BeforeEqual(_, _)
InsertByPriority_BeforeEqual(a, sortedSeq) ==
    IF sortedSeq = << >>
    THEN << a >>
    ELSE IF Head(sortedSeq).priority > a.priority
         THEN << Head(sortedSeq) >> \o InsertByPriority_BeforeEqual(a, Tail(sortedSeq))
         ELSE << a >> \o sortedSeq

\* insert a after the last element whose priority is >= a.priority
RECURSIVE InsertByPriority(_, _)
InsertByPriority(a, sortedSeq) ==
    IF sortedSeq = << >>
    THEN << a >>
    ELSE IF Head(sortedSeq).priority >= a.priority
         THEN << Head(sortedSeq) >> \o InsertByPriority(a, Tail(sortedSeq))
         ELSE << a >> \o sortedSeq

\* sorted(actions, key=lambda x: x.priority, reverse=True): stable
RECURSIVE SortedByPriority(_)
SortedByPriority(acts) ==
    IF acts = << >>
    THEN << >>
    ELSE InsertByPriority(acts[Len(acts)], SortedByPriority(SubSeq(acts, 1, Len(acts) - 1)))

\* a review that needs more than one document
_needs_medical_review_MoreThanOne(profile) == profile.docs > 1

\* ActionPlanner._needs_medical_review
_needs_medical_review(profile) == profile.docs > 0

\* ActionPlanner._needs_pregnancy_education
_needs_pregnancy_education(profile) ==
    profile.exists /\ profile.pregnancy_week # NoWeek /\ profile.pregnancy_week > 0

\* the actions in the order analyze_user_needs appends them
EmittedActions(profile) ==
    (IF profile.pregnancy_week # NoWeek THEN << Action("pregnancy_update", 2) >> ELSE << >>)
    \o (IF _needs_medical_review(profile) THEN << Action("medical_review", 1) >> ELSE << >>)
    \o (IF _needs_pregnancy_education(profile)
        THEN << Action("pregnancy_education", 2) >> ELSE << >>)

\* ActionPlanner.analyze_user_needs: a failing profile read is caught and
\* the (still empty) list is returned
analyze_user_needs(u, ctx, f, P) ==
    IF f.pget \/ ~P[u].exists
    THEN << >>
    ELSE SortedByPriority(EmittedActions(P[u]))

\* a planner that runs the handler of its first action before returning
PlannerCall_ExecutesFirst(u, ctx, f, P) ==
    LET acts == analyze_user_needs(u, ctx, f, P) IN
    IF acts = << >>
    THEN [actions |-> acts, inserts |-> << >>, profiles |-> P, executed |-> FALSE]
    ELSE LET r == execute_action(acts[1], u, ctx, NoFailure, P) IN
         [actions |-> acts, inserts |-> r.result.inserts,
          profiles |-> r.result.profiles, executed |-> TRUE]

\* one call of analyze_user_needs with what it does besides returning the
\* list: it reads the profile and builds Action objects, it writes to no
\* store and calls neither execute_action nor a handler
PlannerCall(u, ctx, f, P) ==
    [actions |-> analyze_user_needs(u, ctx, f, P),
     inserts |-> << >>, profiles |-> P, executed |-> FALSE]

\* ------------------------------------------------------------------------
\* Messages and responses.  A message is the set of keyword groups of
\* _detect_intent that occur in it, and whether it carries a duration or an
\* interval (_extract_contraction_info).
\* ------------------------------------------------------------------------
IntentOrder ==
    << "greeting", "pregnancy_info", "medical_documents", "medical_review",
       "appointment", "emergency", "contraction_tracking", "pregnancy_week_check" >>

Message(words, numbers) == [words |-> words, numbers |-> numbers]

Messages ==
    { Message({"greeting", "emergency"}, FALSE),
      Message({}, FALSE) }

\* ChatRouter._detect_intent: the first keyword group, in the order of the
\* if/elif chain, that occurs in the message
_detect_intent(message) ==
    IF \E i \in DOMAIN IntentOrder : IntentOrder[i] \in message.words
    THEN IntentOrder[CHOOSE i \in DOMAIN IntentOrder :
                        /\ IntentOrder[i] \in message.words
                        /\ \A j \in 1..(i-1) : IntentOrder[j] \notin message.words]
    ELSE "general"

Response(kind, mentions) == [kind |-> kind, mentions |-> mentions]

ApologyResponse == Response("apology", << >>)

OnboardingResponse == Response("onboarding", << >>)

\* _generate_general_response naming every planned action
_generate_general_response_All(acts) ==
    IF acts # << >>
    THEN Response("general", [i \in 1..Len(acts) |-> acts[i].action_type])
    ELSE Response("general_no_actions", << >>)

\* ChatRouter._generate_general_response: the descriptions of actions[:2]
_generate_general_response(acts) ==
    IF acts # << >>
    THEN Response("general",
                  [i \in 1..Min(Len(acts), 2) |-> acts[i].action_type])
    ELSE Response("general_no_actions", << >>)

\* ChatRouter._generate_response (with the _generate_* helpers): the
\* profile is the one read at the start of the turn
_generate_response(u, message, profile, acts, f, P) ==
    LET intent == _detect_intent(message) IN
    CASE intent = "greeting" -> Response("greeting", << >>)
      [] intent = "pregnancy_info" ->
            IF profile.exists /\ profile.pregnancy_week # NoWeek
            THEN Response("pregnancy_info", << >>)
            ELSE Response("pregnancy_unknown", << >>)
      [] intent = "medical_documents" ->
            IF f.pget THEN Response("documents_problem", << >>)
            ELSE IF get_user_medical_documents(u, P) = 0
                 THEN Response("no_documents", << >>)
                 ELSE Response("documents_info", << >>)
      [] intent = "medical_review" ->
            IF f.pget THEN Response("review_problem", << >>)
            ELSE IF get_user_medical_documents(u, P) = 0
                 THEN Response("no_documents_to_review", << >>)
                 ELSE IF GetRaises(generate_medical_review(get_user_medical_documents(u, P), f.ai))
                      THEN Response("review_problem", << >>)
                      ELSE Response("medical_review", << >>)
      [] intent = "appointment" -> Response("appointment", << >>)
      [] intent = "emergency" -> Response("emergency", << >>)
      [] intent = "contraction_tracking" ->
            IF message.numbers
            THEN IF GetRaises(GenerateWithContext(PlainContext, f.ai))
                 THEN Response("contraction_problem", << >>)
                 ELSE Response("contraction_analysis", << >>)
            ELSE Response("contraction_prompt", << >>)
      [] intent = "pregnancy_week_check" ->
            IF ~profile.exists \/ profile.pregnancy_week = NoWeek
            THEN Response("week_unknown", << >>)
            ELSE IF GetRaises(GenerateWithContext(PlainContext, f.ai))
                 THEN Response("fallback", << >>)
                 ELSE Response("week_check", << >>)
      [] OTHER -> _generate_general_response(acts)

\* ------------------------------------------------------------------------
\* Similarity ranking (EmbeddingsGenerator).  Embeddings are vectors of two
\* integers.  Indices are those of the Python lists, counted from 0.
\* ------------------------------------------------------------------------
Vectors == { << 0, 0 >>, << 1, 0 >>, << 0, 1 >>, << 1, 1 >>, << -1, 0 >> }

\* np.dot
Dot(a, b) == a[1] * b[1] + a[2] * b[2]

\* EmbeddingsGenerator._cosine_similarity.  The value
\* dot / (norm1 * norm2) is kept exactly, as the fraction num / den that is
\* the square of the cosine with the sign of the dot product; it orders as
\* the cosine does.  A zero norm gives 0.
_cosine_similarity(vec1, vec2) ==
    LET dot_product == Dot(vec1, vec2)
        norm1sq == Dot(vec1, vec1)
        norm2sq == Dot(vec2, vec2)
    IN  IF norm1sq = 0 \/ norm2sq = 0
        THEN [num |-> 0, den |-> 1]
        ELSE [num |-> IF dot_product >= 0
                      THEN dot_product * dot_product
                      ELSE 0 - dot_product * dot_product,
              den |-> norm1sq * norm2sq]

SimLess(x, y) == x.num * y.den < y.num * x.den

SimEqual(x, y) == x.num * y.den = y.num * x.den

\* np.argsort(similarities): the indices in an order that makes the values
\* ascending.  The default sort is not stable, the order of equal values is
\* whichever the build gives.
ArgsortOutcomes(similarities) ==
    LET n == Len(similarities) IN
    { order \in [1..n -> 0..(n - 1)] :
        /\ \A i, j \in 1..n : i # j => order[i] # order[j]
        /\ \A i \in 1..(n - 1) :
              ~SimLess(similarities[order[i + 1] + 1], similarities[order[i] + 1]) }

\* the slice a[-top_k:] of a list; a[-0:] is a[0:], the whole list
LastSlice(a, top_k) ==
    IF top_k = 0 \/ top_k >= Len(a)
    THEN a
    ELSE SubSeq(a, Len(a) - top_k + 1, Len(a))

\* the slice a[::-1]
Reversed(a) == [i \in 1..Len(a) |-> a[Len(a) + 1 - i]]

\* EmbeddingsGenerator.similarity_search: the lists it can return
similarity_search(query_embedding, document_embeddings, top_k) ==
    IF document_embeddings = << >>
    THEN { << >> }
    ELSE LET similarities ==
                 [i \in 1..Len(document_embeddings) |->
                    _cosine_similarity(query_embedding, document_embeddings[i])]
         IN  { Reversed(LastSlice(order, top_k)) : order \in ArgsortOutcomes(similarities) }

\* ------------------------------------------------------------------------
\* Retrieval (MemoryManager.get_relevant_memories) and touch
\* ------------------------------------------------------------------------

\* sort=[("last_accessed", -1), ("importance", -1)]: a comes before b
Precedes(a, b) ==
    \/ a.last_accessed > b.last_accessed
    \/ a.last_accessed = b.last_accessed /\ a.importance > b.importance

\* memories_collection.find({"user_id": u}, sort=...): the lists the cursor
\* can give; records equal on both sort keys come in any order
find_sorted(u, M) ==
    LET mine == { i \in DOMAIN M : M[i].user_id = u }
        n == Cardinality(mine)
    IN  { [j \in 1..n |-> M[order[j]]] :
            order \in { o \in [1..n -> mine] :
                          /\ \A i, j \in 1..n : i # j => o[i] # o[j]
                          /\ \A i, j \in 1..n : i < j => ~Precedes(M[o[j]], M[o[i]]) } }

\* cursor.limit(n): the first n documents, and a limit of 0 is no limit
Limit(docs, n) ==
    IF n = 0 \/ n >= Len(docs) THEN docs ELSE SubSeq(docs, 1, n)

\* the loop that builds relevant_memories from similar_indices
relevant_memories(all_memories, similar_indices) ==
    [j \in 1..Len(similar_indices) |-> all_memories[similar_indices[j] + 1]]

\* the rankings similarity_search can return for n candidates, over the
\* embeddings the provider may give them: three vectors of different
\* similarity to the query give every order and every tie
Rankings(n, limit) ==
    UNION { similarity_search(<< 1, 0 >>, embeddings, limit) :
              embeddings \in [1..n -> { << 1, 0 >>, << 1, 1 >>, << 0, 0 >> }] }

\* a retrieval that marks the memories it returns as accessed
AfterRetrieval_Touches(M, returned, now) ==
    [i \in DOMAIN M |->
        IF \E j \in DOMAIN returned : returned[j].id = M[i].id
        THEN [M[i] EXCEPT !.last_accessed = now]
        ELSE M[i]]

\* the memories collection after get_relevant_memories returned: the
\* function sets "_id" of the dicts the cursor handed it, which are copies
\* of the stored records, and sends no update to the store
AfterRetrieval(M, returned, now) == M

\* a retrieval that goes on to rank an empty candidate list
AfterFind_NoEmptyCheck(all_memories) == "rank"

\* if not all_memories: return []
AfterFind(all_memories) == IF all_memories = << >> THEN "done" ELSE "rank"

\* the ids a caller can hand to update_memory_access: the ObjectId that
\* insert_one gave the record, or the string store_memory returned for it
MemoryIds == [form : {"ObjectId", "str"}, n : 1..MaxMemories]

\* a touch that replaces the matched document instead of setting one field
update_memory_access_Replaces(M, memory_id, now) ==
    [i \in DOMAIN M |->
        IF memory_id.form = "ObjectId" /\ M[i].id = memory_id.n
        THEN [M[i] EXCEPT !.last_accessed = now, !.importance = 0]
        ELSE M[i]]

\* MemoryManager.update_memory_access: update_one({"_id": memory_id}, $set
\* last_accessed).  The stored _id is an ObjectId and the filter matches by
\* value and type, so a string matches no record; no match is not an error.
update_memory_access(M, memory_id, now) ==
    [i \in DOMAIN M |->
        IF memory_id.form = "ObjectId" /\ M[i].id = memory_id.n
        THEN [M[i] EXCEPT !.last_accessed = now]
        ELSE M[i]]

\* ------------------------------------------------------------------------
\* Context loading
\* ------------------------------------------------------------------------
RetrievalOutcomes == [find : BOOLEAN, embed : BOOLEAN, fallback_find : BOOLEAN]

NoRetrievalFailure == [find |-> FALSE, embed |-> FALSE, fallback_find |-> FALSE]

\* MemoryManager.get_relevant_memories raises only when the ranking path
\* failed (the find, or an embedding of a non-empty candidate list) and the
\* find of the fallback fails too
get_relevant_memories_raises(u, o, M) ==
    LET hasMemories == \E i \in DOMAIN M : M[i].user_id = u IN
    /\ o.find \/ (hasMemories /\ o.embed)
    /\ o.fallback_find

\* ChatRouter._get_conversation_context: any exception gives {}
_get_conversation_context(u, o, f, M) ==
    IF get_relevant_memories_raises(u, o, M) \/ f.pget
    THEN EmptyContext
    ELSE FullContext

\* ------------------------------------------------------------------------
\* State
\* ------------------------------------------------------------------------
VARIABLES
    profiles,              \* user_profiles collection: user -> profile
    memories,              \* memories collection, in insertion order
    conversations,         \* conversations collection, in insertion order
    clock,                 \* datetime.utcnow() of the next insert
    pc,                    \* where process_message stands
    turn_user,             \* user_id of the turn
    turn_message,          \* message of the turn
    user_profile,          \* the profile read at the start of the turn
    conversation_context,  \* the context of the turn
    actions,               \* the planned actions
    k,                     \* position of the execution loop
    executed_actions,      \* the executed_actions list
    response,              \* the response text
    result,                \* what process_message returned
    raised,                \* process_message raised to its caller
    boundary,              \* an exception reached the try of process_message
    faulty,                \* some collaborator call of the turn did not succeed
    log,                   \* the calls made during the turn, in order
    start,                 \* the stores when the turn began
    lastExec,              \* the last direct execute_action call
    directCount,           \* number of direct execute_action calls
    lastPlan,              \* the last direct analyze_user_needs call
    prevPlan,              \* the direct analyze_user_needs call before it
    emitted,               \* a list of actions in the order they were appended
    planned,               \* what sorting the emitted list returned
    retrieval,             \* the get_relevant_memories call in progress
    lastOp,                \* the last operation on the memory store
    search,                \* a similarity_search call
    updates                \* the _pregnancy_update executions in progress, per worker

storeVars == << profiles, memories, conversations, clock >>
turnVars == << pc, turn_user, turn_message, user_profile, conversation_context,
               actions, k, executed_actions, response, result, raised, boundary,
               faulty, log, start >>
execVars == << lastExec, directCount >>
planVars == << lastPlan, prevPlan, emitted, planned >>
retrievalVars == << retrieval, lastOp >>
searchVars == << search >>
updateVars == << updates >>
otherVars == << planVars, retrievalVars, searchVars, updateVars >>
vars == << storeVars, turnVars, execVars, otherVars >>

NoResult == [returned |-> FALSE]

NoExec == [called |-> FALSE]

Event(ev, idx) == [ev |-> ev, idx |-> idx]

\* insert_one into the memories collection: created_at and last_accessed
\* are both the current instant
InsertMemories(M, inserts, now) ==
    M \o [i \in 1..Len(inserts) |->
            [user_id |-> inserts[i].user_id,
             memory_type |-> inserts[i].memory_type,
             importance |-> inserts[i].importance,
             week |-> inserts[i].week,
             id |-> Len(M) + i,
             created_at |-> now,
             last_accessed |-> now]]

Snapshot == [memories |-> memories, conversations |-> conversations, profiles |-> profiles]

InitStore ==
    /\ memories = << >>
    /\ conversations = << >>
    /\ clock = 1

InitTurn ==
    /\ pc = "idle"
    /\ turn_user = "u1"
    /\ turn_message = Message({}, FALSE)
    /\ user_profile = NoProfile
    /\ conversation_context = EmptyContext
    /\ actions = << >>
    /\ k = 1
    /\ executed_actions = << >>
    /\ response = Response("none", << >>)
    /\ result = NoResult
    /\ raised = FALSE
    /\ boundary = FALSE
    /\ faulty = FALSE
    /\ log = << >>
    /\ start = [memories |-> << >>, conversations |-> << >>, profiles |-> profiles]

InitExec ==
    /\ lastExec = NoExec
    /\ directCount = 0

NoPlan == [called |-> FALSE]

NoRetrieval == [pc |-> "idle"]

NoSearch == [called |-> FALSE]

NoPlanned == [returned |-> FALSE]

\* the server processes that serve turns against the same stores
Workers == {1, 2}

NoUpdate == [pc |-> "idle"]

InitPlan ==
    /\ lastPlan = NoPlan
    /\ prevPlan = NoPlan
    /\ emitted = << >>
    /\ planned = NoPlanned

InitRetrieval ==
    /\ retrieval = NoRetrieval
    /\ lastOp = "none"

InitSearch == search = NoSearch

InitUpdates == updates = [w \in Workers |-> NoUpdate]

InitOther ==
    /\ InitPlan
    /\ InitRetrieval
    /\ InitSearch
    /\ InitUpdates

\* the second user's profile is fixed, the first user's is any of the choices
OtherProfile == UserProfile(19, 140, 0)

InitProfiles ==
    { [u \in Users |-> IF u = "u1" THEN p ELSE OtherProfile] : p \in ProfileChoices }

Init ==
    /\ profiles \in InitProfiles
    /\ InitStore
    /\ InitTurn
    /\ InitExec
    /\ InitOther

\* ------------------------------------------------------------------------
\* process_message, one action per call it awaits
\* ------------------------------------------------------------------------

\* process_message storing the conversation after the execution loop
PhaseAfter_StoreLast(phase) ==
    CASE phase = "profile" -> "load"
      [] phase = "load" -> "plan"
      [] phase = "plan" -> "generate"
      [] phase = "generate" -> "exec"
      [] phase = "exec" -> "store"
      [] phase = "store" -> "return"

\* the order of the calls in the body of process_message
PhaseAfter(phase) ==
    CASE phase = "profile" -> "load"
      [] phase = "load" -> "plan"
      [] phase = "plan" -> "generate"
      [] phase = "generate" -> "store"
      [] phase = "store" -> "exec"
      [] phase = "exec" -> "return"

\* process_message without the check of the profile
AfterProfileLookup_NoCheck(profile) == "load"

\* if not user_profile: return the onboarding result
AfterProfileLookup(profile) ==
    IF ~profile.exists THEN "returned" ELSE PhaseAfter("profile")

OnboardingResult ==
    [returned |-> TRUE, response |-> OnboardingResponse, actions |-> << >>,
     context |-> EmptyContext, needs_profile |-> TRUE]

ApologyResult ==
    [returned |-> TRUE, response |-> ApologyResponse, actions |-> << >>,
     context |-> EmptyContext, needs_profile |-> FALSE]

\* process_message without its except clause
OnTurnException_Propagates == [raised |-> TRUE, result |-> NoResult]

\* except Exception of process_message: the exception is swallowed and the
\* apology result returned
OnTurnException == [raised |-> FALSE, result |-> ApologyResult]

\* a loop over the whole list
Candidates_NoCap(acts) == [i \in 1..Len(acts) |-> i]

\* a loop that visits the first action again at the end
Candidates_Repeat(acts) ==
    IF acts = << >>
    THEN << >>
    ELSE [i \in 1..Min(Len(acts), 3) |-> i] \o << 1 >>

\* for action in actions[:3]: the indices the loop visits
Candidates(acts) == [i \in 1..Min(Len(acts), TopN) |-> i]

\* a threshold that is off by one
ShouldExecute_OffByOne(action) == action.priority >= 1

\* if action.priority >= 2
ShouldExecute(action) == action.priority >= Threshold

TurnFails ==
    /\ pc' = "returned"
    /\ boundary' = TRUE
    /\ raised' = OnTurnException.raised
    /\ result' = OnTurnException.result

Receive(u, m) ==
    /\ pc \in {"idle", "returned"}
    /\ ~raised
    /\ Len(conversations) < MaxTurns
    /\ pc' = "profile"
    /\ turn_user' = u
    /\ turn_message' = m
    /\ user_profile' = NoProfile
    /\ conversation_context' = EmptyContext
    /\ actions' = << >>
    /\ k' = 1
    /\ executed_actions' = << >>
    /\ response' = Response("none", << >>)
    /\ result' = NoResult
    /\ boundary' = FALSE
    /\ faulty' = FALSE
    /\ log' = << >>
    /\ start' = Snapshot
    /\ UNCHANGED << storeVars, raised, execVars, otherVars >>

\* user_profile = await user_profile_manager.get_user_profile(user_id)
GetProfile ==
    /\ pc = "profile"
    /\ \E fails \in BOOLEAN :
         IF fails
         THEN /\ TurnFails
              /\ faulty' = TRUE
              /\ UNCHANGED user_profile
         ELSE /\ user_profile' = profiles[turn_user]
              /\ pc' = AfterProfileLookup(profiles[turn_user])
              /\ result' = IF AfterProfileLookup(profiles[turn_user]) = "returned"
                           THEN OnboardingResult ELSE NoResult
              /\ UNCHANGED << raised, boundary, faulty >>
    /\ UNCHANGED << storeVars, turn_user, turn_message, conversation_context, actions,
                    k, executed_actions, response, log, start, execVars, otherVars >>

\* conversation_context = await self._get_conversation_context(user_id, context)
LoadContext ==
    /\ pc = "load"
    /\ \E o \in RetrievalOutcomes, f \in ProfileReadOutcomes :
         /\ conversation_context' = _get_conversation_context(turn_user, o, f, memories)
         /\ faulty' = (faulty \/ o # NoRetrievalFailure \/ f # NoFailure)
    /\ log' = Append(log, Event("load", 0))
    /\ pc' = PhaseAfter("load")
    /\ UNCHANGED << storeVars, turn_user, turn_message, user_profile, actions, k,
                    executed_actions, response, result, raised, boundary, start, execVars, otherVars >>

\* actions = await action_planner.analyze_user_needs(user_id, conversation_context)
Plan ==
    /\ pc = "plan"
    /\ \E f \in ProfileReadOutcomes :
         /\ actions' = analyze_user_needs(turn_user, conversation_context, f, profiles)
         /\ faulty' = (faulty \/ f # NoFailure)
    /\ log' = Append(log, Event("plan", 0))
    /\ pc' = PhaseAfter("plan")
    /\ UNCHANGED << storeVars, turn_user, turn_message, user_profile, conversation_context,
                    k, executed_actions, response, result, raised, boundary, start, execVars, otherVars >>

\* response = await self._generate_response(...)
GenerateResponse ==
    /\ pc = "generate"
    /\ \E f \in ReadAndGenerateOutcomes :
         /\ response' = _generate_response(turn_user, turn_message, user_profile, actions,
                                           f, profiles)
         /\ faulty' = (faulty \/ f # NoFailure)
    /\ log' = Append(log, Event("generate", 0))
    /\ pc' = PhaseAfter("generate")
    /\ UNCHANGED << storeVars, turn_user, turn_message, user_profile, conversation_context,
                    actions, k, executed_actions, result, raised, boundary, start, execVars, otherVars >>

\* await memory_manager.store_conversation(...): insert_one into the
\* conversations collection; a failure is re-raised to process_message
StoreConversation ==
    /\ pc = "store"
    /\ \E fails \in BOOLEAN :
         IF fails
         THEN /\ TurnFails
              /\ faulty' = TRUE
              /\ UNCHANGED << conversations, clock, log >>
         ELSE /\ conversations' = Append(conversations,
                    [user_id |-> turn_user, message |-> turn_message,
                     response |-> response, type |-> "conversation", timestamp |-> clock])
              /\ clock' = clock + 1
              /\ log' = Append(log, Event("store", 0))
              /\ pc' = PhaseAfter("store")
              /\ UNCHANGED << result, raised, boundary, faulty >>
    /\ UNCHANGED << profiles, memories, turn_user, turn_message, user_profile,
                    conversation_context, actions, k, executed_actions, response,
                    start, execVars, otherVars >>

\* one iteration of: for action in actions[:3]: if action.priority >= 2: ...
ExecuteNext ==
    /\ pc = "exec"
    /\ k <= Len(Candidates(actions))
    /\ LET i == Candidates(actions)[k] IN
         IF ShouldExecute(actions[i])
         THEN \E x \in { [r |-> execute_action(actions[i], turn_user,
                                                 conversation_context, f, profiles),
                            faulty |-> f # NoFailure] : f \in Outcomes } :
                LET r == x.r
                IN  /\ faulty' = (faulty \/ x.faulty)
                    /\ profiles' = r.result.profiles
                    /\ memories' = InsertMemories(memories, r.result.inserts, clock)
                    /\ clock' = clock + Len(r.result.inserts)
                    /\ actions' = [actions EXCEPT ![i].completed = r.completed]
                    /\ executed_actions' = Append(executed_actions,
                           [action_type |-> actions[i].action_type,
                            status |-> r.result.status,
                            message |-> r.result.message])
                    /\ log' = Append(log, Event("exec", i))
         ELSE UNCHANGED << profiles, memories, clock, actions, executed_actions, log,
                           faulty >>
    /\ k' = k + 1
    /\ UNCHANGED << conversations, pc, turn_user, turn_message, user_profile,
                    conversation_context, response, result, raised, boundary, start,
                    execVars, otherVars >>

\* the loop is over
FinishExecute ==
    /\ pc = "exec"
    /\ k > Len(Candidates(actions))
    /\ pc' = PhaseAfter("exec")
    /\ UNCHANGED << storeVars, turn_user, turn_message, user_profile, conversation_context,
                    actions, k, executed_actions, response, result, raised, boundary,
                    faulty, log, start, execVars, otherVars >>

\* return {"response": response, "actions": executed_actions, ...}
Return ==
    /\ pc = "return"
    /\ result' = [returned |-> TRUE, response |-> response, actions |-> executed_actions,
                  context |-> conversation_context, needs_profile |-> FALSE]
    /\ pc' = "returned"
    /\ UNCHANGED << storeVars, turn_user, turn_message, user_profile, conversation_context,
                    actions, k, executed_actions, response, raised, boundary, faulty,
                    log, start, execVars, otherVars >>

Next ==
    \/ \E u \in Users, m \in Messages : Receive(u, m)
    \/ GetProfile
    \/ LoadContext
    \/ Plan
    \/ GenerateResponse
    \/ StoreConversation
    \/ ExecuteNext
    \/ FinishExecute
    \/ Return

Spec == Init /\ [][Next]_vars

\* ------------------------------------------------------------------------
\* execute_action called on its own, for any kind, user and context
\* ------------------------------------------------------------------------
ActionKinds == available_actions \cup {UnknownKind}

DirectExecute(u, kind, ctx) ==
    /\ pc = "idle"
    /\ directCount < MaxDirect
    /\ LET action == Action(kind, 1) IN
         \E x \in { [r |-> execute_action(action, u, ctx, f, profiles),
                      read_failed |-> f.pget] : f \in Outcomes } :
           LET r == x.r IN
             /\ profiles' = r.result.profiles
             /\ memories' = InsertMemories(memories, r.result.inserts, clock)
             /\ clock' = clock + Len(r.result.inserts)
             /\ lastExec' = [called |-> TRUE,
                             action_type |-> kind,
                             user_id |-> u,
                             status |-> r.result.status,
                             message |-> r.result.message,
                             completed_before |-> action.completed,
                             completed |-> r.completed,
                             invoked |-> r.invoked,
                             generated |-> r.result.generated,
                             read_failed |-> x.read_failed,
                             memories_before |-> memories,
                             profiles_before |-> profiles]
    /\ directCount' = directCount + 1
    /\ UNCHANGED << conversations, turnVars, otherVars >>

NextExec ==
    \E u \in Users, kind \in ActionKinds, ctx \in Contexts : DirectExecute(u, kind, ctx)

SpecExec == Init /\ [][NextExec]_vars

\* ------------------------------------------------------------------------
\* analyze_user_needs called on its own, for any user and context
\* ------------------------------------------------------------------------
PlanProfiles ==
    ProfileChoices \cup
    { OtherProfile, UserProfile(MinWeek, NoLmp, 2), UserProfile(MaxWeek, 300, 0) }

DirectPlan(u, ctx) ==
    /\ pc = "idle"
    /\ \E f \in ProfileReadOutcomes :
         LET r == PlannerCall(u, ctx, f, profiles) IN
           /\ profiles' = r.profiles
           /\ memories' = InsertMemories(memories, r.inserts, clock)
           /\ clock' = clock + Len(r.inserts)
           /\ lastPlan' = [called |-> TRUE,
                           user_id |-> u,
                           context |-> ctx,
                           read_failed |-> f.pget,
                           profile |-> profiles[u],
                           actions |-> r.actions,
                           executed |-> r.executed,
                           before |-> Snapshot]
    /\ prevPlan' = lastPlan
    /\ UNCHANGED << conversations, turnVars, execVars, emitted, planned,
                    retrievalVars, searchVars, updateVars >>

InitDirectPlan ==
    /\ profiles \in [Users -> PlanProfiles]
    /\ InitStore
    /\ InitTurn
    /\ InitExec
    /\ InitOther

NextPlan == \E u \in Users, ctx \in Contexts : DirectPlan(u, ctx)

SpecPlan == InitDirectPlan /\ [][NextPlan]_vars

\* ------------------------------------------------------------------------
\* The sort at the end of analyze_user_needs, for any list of appended
\* actions.  The action appended at position i has the kind SortKinds[i],
\* so that every action of the list can be told from the others.
\* ------------------------------------------------------------------------
SortKinds ==
    << "pregnancy_update", "medical_review", "pregnancy_education",
       "symptom_tracking", "reminder", "schedule_appointment",
       "upload_document", "emergency_contact", "contraction_tracking" >>

EmissionOrders ==
    { [i \in 1..Len(prio) |-> Action(SortKinds[i], prio[i])] :
        prio \in UNION { [1..n -> 1..MaxPriority] : n \in 0..MaxPlan } }

SortEmitted ==
    /\ pc = "idle"
    /\ ~planned.returned
    /\ planned' = [returned |-> TRUE, actions |-> SortedByPriority(emitted)]
    /\ UNCHANGED << storeVars, turnVars, execVars, lastPlan, prevPlan, emitted,
                    retrievalVars, searchVars, updateVars >>

InitSort ==
    /\ profiles = [u \in Users |-> OtherProfile]
    /\ InitStore
    /\ InitTurn
    /\ InitExec
    /\ lastPlan = NoPlan
    /\ prevPlan = NoPlan
    /\ emitted \in EmissionOrders
    /\ planned = NoPlanned
    /\ InitRetrieval
    /\ InitSearch
    /\ InitUpdates

NextSort == SortEmitted

SpecSort == InitSort /\ [][NextSort]_vars

\* ------------------------------------------------------------------------
\* similarity_search called on its own, for any query, candidates and top_k
\* ------------------------------------------------------------------------
SearchInputs ==
    { [called |-> FALSE, query_embedding |-> q, document_embeddings |-> d, top_k |-> n] :
        q \in Vectors,
        d \in UNION { [1..m -> Vectors] : m \in 0..MaxDocs },
        n \in 0..(MaxDocs + 1) }

RunSearch ==
    /\ pc = "idle"
    /\ ~search.called
    /\ \E top_indices \in similarity_search(search.query_embedding,
                                              search.document_embeddings, search.top_k) :
         search' = [called |-> TRUE,
                    query_embedding |-> search.query_embedding,
                    document_embeddings |-> search.document_embeddings,
                    top_k |-> search.top_k,
                    result |-> top_indices]
    /\ UNCHANGED << storeVars, turnVars, execVars, planVars, retrievalVars, updateVars >>

InitDirectSearch ==
    /\ profiles = [u \in Users |-> OtherProfile]
    /\ InitStore
    /\ InitTurn
    /\ InitExec
    /\ InitPlan
    /\ InitRetrieval
    /\ InitUpdates
    /\ search \in SearchInputs

NextSearch == RunSearch

SpecSearch == InitDirectSearch /\ [][NextSearch]_vars

\* ------------------------------------------------------------------------
\* get_relevant_memories called on its own, one step per store call, while
\* other turns insert memories and touch them
\* ------------------------------------------------------------------------
Importances == {5, 9}

Limits == 0..MaxLimit

retrievalFrame ==
    << profiles, conversations, turnVars, execVars, planVars, searchVars, updateVars >>

RetrieveCall(u, limit) ==
    /\ pc = "idle"
    /\ retrieval.pc \in {"idle", "done"}
    /\ retrieval' = [pc |-> "find", user_id |-> u, limit |-> limit,
                     all_memories |-> << >>, loaded |-> FALSE, find_failures |-> 0,
                     embed_calls |-> 0, embed_ok |-> 0, ranked |-> FALSE,
                     path |-> "none", returned |-> << >>, raised |-> FALSE]
    /\ lastOp' = "call"
    /\ UNCHANGED << memories, clock, retrievalFrame >>

\* all_memories = list(self.memories_collection.find(...))
RetrieveFind ==
    /\ retrieval.pc = "find"
    /\ \E fails \in BOOLEAN :
         IF fails
         THEN /\ retrieval' = [retrieval EXCEPT !.pc = "fallback", !.find_failures = 1]
              /\ UNCHANGED memories
         ELSE \E found \in find_sorted(retrieval.user_id, memories) :
                IF AfterFind(found) = "done"
                THEN /\ retrieval' = [retrieval EXCEPT !.pc = "done", !.loaded = TRUE,
                                                        !.path = "empty"]
                     /\ memories' = AfterRetrieval(memories, << >>, clock)
                ELSE /\ retrieval' = [retrieval EXCEPT !.pc = "rank", !.loaded = TRUE,
                                                        !.all_memories = found]
                     /\ UNCHANGED memories
    /\ lastOp' = "find"
    /\ UNCHANGED << clock, retrievalFrame >>

\* the embedding of the query and of every candidate, then
\* similarity_search and the loop over its indices
RetrieveRank ==
    /\ retrieval.pc = "rank"
    /\ LET n == Len(retrieval.all_memories) IN
         \/ \E failing \in 1..(n + 1) :
               /\ retrieval' = [retrieval EXCEPT !.pc = "fallback",
                                   !.embed_calls = failing, !.embed_ok = failing - 1]
               /\ UNCHANGED memories
         \/ /\ retrieval' = [retrieval EXCEPT !.pc = "fallback", !.ranked = TRUE,
                                 !.embed_calls = n + 1, !.embed_ok = n + 1]
            /\ UNCHANGED memories
         \/ \E similar_indices \in Rankings(n, retrieval.limit) :
               LET returned == relevant_memories(retrieval.all_memories, similar_indices) IN
               /\ retrieval' = [retrieval EXCEPT !.pc = "done", !.ranked = TRUE,
                                   !.embed_calls = n + 1, !.embed_ok = n + 1,
                                   !.path = "ranked", !.returned = returned]
               /\ memories' = AfterRetrieval(memories, returned, clock)
    /\ lastOp' = "rank"
    /\ UNCHANGED << clock, retrievalFrame >>

\* except Exception: memories = list(find(...).limit(limit)); a failure of
\* this find is raised to the caller
RetrieveFallback ==
    /\ retrieval.pc = "fallback"
    /\ \E fails \in BOOLEAN :
         IF fails
         THEN /\ retrieval' = [retrieval EXCEPT !.pc = "done", !.path = "fallback",
                                  !.raised = TRUE,
                                  !.find_failures = retrieval.find_failures + 1]
              /\ UNCHANGED memories
         ELSE \E found \in find_sorted(retrieval.user_id, memories) :
                LET returned == Limit(found, retrieval.limit) IN
                /\ retrieval' = [retrieval EXCEPT !.pc = "done", !.path = "fallback",
                                    !.returned = returned]
                /\ memories' = AfterRetrieval(memories, returned, clock)
    /\ lastOp' = "fallback"
    /\ UNCHANGED << clock, retrievalFrame >>

\* store_memory called by another turn, while a retrieval is in progress or
\* before one starts
ConcurrentStore(u, importance) ==
    /\ pc = "idle"
    /\ retrieval.pc # "done"
    /\ Len(memories) < MaxMemories
    /\ LET inserts == store_memory(u, "pregnancy", importance, NoWeek, NoFailure).inserts IN
         /\ memories' = InsertMemories(memories, inserts, clock)
         /\ clock' = clock + Len(inserts)
    /\ lastOp' = "store"
    /\ UNCHANGED << retrieval, retrievalFrame >>

\* update_memory_access called by another turn
Touch(memory_id) ==
    /\ pc = "idle"
    /\ retrieval.pc # "done"
    /\ memories' = update_memory_access(memories, memory_id, clock)
    /\ lastOp' = "touch"
    /\ UNCHANGED << clock, retrieval, retrievalFrame >>

NextRetrieve ==
    \/ \E u \in Users, limit \in Limits : RetrieveCall(u, limit)
    \/ RetrieveFind
    \/ RetrieveRank
    \/ RetrieveFallback
    \/ \E u \in Users, importance \in Importances : ConcurrentStore(u, importance)
    \/ \E memory_id \in MemoryIds : Touch(memory_id)

InitRetrieve ==
    /\ profiles = [u \in Users |-> OtherProfile]
    /\ InitStore
    /\ InitTurn
    /\ InitExec
    /\ InitOther

SpecRetrieve == InitRetrieve /\ [][NextRetrieve]_vars

\* ------------------------------------------------------------------------
\* _pregnancy_update executed by two workers against the same stores, one
\* step per collaborator call.  Every call in the source blocks, so one
\* event loop runs a handler to its end; the steps of two executions
\* interleave when two server processes serve the same user.
\* ------------------------------------------------------------------------
updateFrame ==
    << conversations, turnVars, execVars, planVars, retrievalVars, searchVars >>

UpdateDone(w, status) == [updates EXCEPT ![w].pc = "done", ![w].status = status]

\* the context the orchestrator passes and a context that serialises
UpdateContexts == {FullContext, PlainContext}

\* execute_action dispatching to _pregnancy_update
UpdateCall(w, u, ctx) ==
    /\ pc = "idle"
    /\ updates[w].pc = "idle"
    /\ updates' = [updates EXCEPT ![w] = [pc |-> "read", user_id |-> u, context |-> ctx,
                                          current_week |-> NoWeek, status |-> "none",
                                          ai |-> "none", week_insights |-> "none"]]
    /\ UNCHANGED << storeVars, updateFrame >>

\* get_user_profile, calculate_pregnancy_week and the comparison with the
\* week that was read
UpdateRead(w) ==
    /\ updates[w].pc = "read"
    /\ \E fails \in BOOLEAN :
         LET user_profile_read == profiles[updates[w].user_id] IN
         IF fails
         THEN updates' = UpdateDone(w, "error")
         ELSE IF user_profile_read.exists /\ user_profile_read.lmp_days # NoLmp
              THEN LET current_week == calculate_pregnancy_week(user_profile_read.lmp_days) IN
                   IF current_week # user_profile_read.pregnancy_week
                   THEN updates' = [updates EXCEPT ![w].pc = "update",
                                                   ![w].current_week = current_week]
                   ELSE updates' = UpdateDone(w, "info")
              ELSE updates' = UpdateDone(w, "info")
    /\ UNCHANGED << storeVars, updateFrame >>

\* update_user_profile(user_id, {"pregnancy_week": current_week})
UpdateWrite(w) ==
    /\ updates[w].pc = "update"
    /\ \E o \in UpdateOutcomes :
         IF o = "update_fails"
         THEN /\ updates' = UpdateDone(w, "error")
              /\ UNCHANGED profiles
         ELSE /\ profiles' = update_user_profile(updates[w].user_id,
                                                 updates[w].current_week, profiles)
              /\ updates' = IF o = "reread_fails"
                            THEN UpdateDone(w, "error")
                            ELSE [updates EXCEPT ![w].pc = "insights"]
    /\ UNCHANGED << memories, conversations, clock, turnVars, execVars, planVars,
                    retrievalVars, searchVars >>

\* generate_pregnancy_week_insights and week_insights.get('summary', '')
UpdateInsights(w) ==
    /\ updates[w].pc = "insights"
    /\ \E ai \in AIOutcomes :
         LET week_insights == GenerateWithContext(updates[w].context, ai)
             returned == [updates EXCEPT ![w].ai = ai, ![w].week_insights = week_insights]
         IN  updates' = IF GetRaises(week_insights)
                        THEN [returned EXCEPT ![w].pc = "done", ![w].status = "error"]
                        ELSE [returned EXCEPT ![w].pc = "store"]
    /\ UNCHANGED << storeVars, updateFrame >>

\* store_pregnancy_memory and the return of the success result
UpdateStore(w) ==
    /\ updates[w].pc = "store"
    /\ \E fails \in BOOLEAN :
         LET stored == store_pregnancy_memory(updates[w].user_id, updates[w].current_week,
                                              8, [NoFailure EXCEPT !.mins = fails])
         IN  /\ memories' = InsertMemories(memories, stored.inserts, clock)
             /\ clock' = clock + Len(stored.inserts)
             /\ updates' = UpdateDone(w, IF stored.raised THEN "error" ELSE "success")
    /\ UNCHANGED << profiles, updateFrame >>

NextConcurrent ==
    \/ \E w \in Workers, u \in Users, ctx \in UpdateContexts : UpdateCall(w, u, ctx)
    \/ \E w \in Workers : UpdateRead(w)
    \/ \E w \in Workers : UpdateWrite(w)
    \/ \E w \in Workers : UpdateInsights(w)
    \/ \E w \in Workers : UpdateStore(w)

SpecConcurrent == Init /\ [][NextConcurrent]_vars

\* ------------------------------------------------------------------------
\* process_message with a planner that may return any list of actions
\* ------------------------------------------------------------------------
PlannedKinds == {"pregnancy_education", "upload_document"}

PlannedActions == { Action(kind, prio) : kind \in PlannedKinds, prio \in 1..MaxPriority }

AnyPlan == UNION { [1..n -> PlannedActions] : n \in 0..MaxPlan }

PlanAny ==
    /\ pc = "plan"
    /\ actions' \in AnyPlan
    /\ log' = Append(log, Event("plan", 0))
    /\ pc' = PhaseAfter("plan")
    /\ UNCHANGED << storeVars, turn_user, turn_message, user_profile, conversation_context,
                    k, executed_actions, response, result, raised, boundary, faulty, start,
                    execVars, otherVars >>

InitAnyPlan ==
    /\ profiles = [u \in Users |-> UserProfile(20, 140, 1)]
    /\ InitStore
    /\ InitTurn
    /\ InitExec
    /\ InitOther

\* a single turn
ReceiveOnce ==
    /\ pc = "idle"
    /\ Receive("u1", Message({}, FALSE))

NextAnyPlan ==
    \/ ReceiveOnce
    \/ GetProfile
    \/ LoadContext
    \/ PlanAny
    \/ GenerateResponse
    \/ StoreConversation
    \/ ExecuteNext
    \/ FinishExecute
    \/ Return

SpecAnyPlan == InitAnyPlan /\ [][NextAnyPlan]_vars

\* ------------------------------------------------------------------------
\* Properties
\* ------------------------------------------------------------------------
EventsOf(ev) == { i \in DOMAIN log : log[i].ev = ev }

PhaseRank(ev) ==
    CASE ev = "load" -> 1
      [] ev = "plan" -> 2
      [] ev = "generate" -> 3
      [] ev = "store" -> 4
      [] ev = "exec" -> 5

\* the turn returned the normal result (not the onboarding, not the apology)
NormalReturn ==
    /\ pc = "returned"
    /\ result.returned
    /\ ~boundary
    /\ ~result.needs_profile

NewMemories == SubSeq(memories, Len(start.memories) + 1, Len(memories))

NewConversations == SubSeq(conversations, Len(start.conversations) + 1, Len(conversations))

\* C1 as claimed: the conversation record of a turn is written only after
\* every action execution of the turn has returned, never before or between
\* executions.
C1_StoreAfterExecutions ==
    \A i \in EventsOf("store"), j \in EventsOf("exec") : j < i

\* C1 amended: the calls of a turn happen in the order load context, plan,
\* generate response, store conversation, execute; the conversation record
\* is written once, before the first action execution, and a normal return
\* has gone through all of load, plan, generate and store.
C1_StoreBeforeExecutions ==
    /\ \A i, j \in DOMAIN log : i < j => PhaseRank(log[i].ev) <= PhaseRank(log[j].ev)
    /\ \A ev \in {"load", "plan", "generate", "store"} : Cardinality(EventsOf(ev)) <= 1
    /\ EventsOf("exec") # {} => /\ EventsOf("store") # {}
                                /\ Len(NewConversations) = 1
    /\ NormalReturn => \A ev \in {"load", "plan", "generate", "store"} : EventsOf(ev) # {}

C1_Witness ==
    /\ NormalReturn
    /\ Cardinality(EventsOf("exec")) = 2
    /\ Len(NewConversations) = 1

\* C2: in any turn, for any list of planned actions, at most 3 actions are
\* executed and every executed action has priority >= 2.
C2_TopNThreshold ==
    /\ Cardinality(EventsOf("exec")) <= 3
    /\ Len(executed_actions) <= 3
    /\ \A i \in EventsOf("exec") : actions[log[i].idx].priority >= 2

C2_Witness ==
    /\ NormalReturn
    /\ Len(actions) = 4
    /\ actions[1].priority = 1
    /\ \A i \in 2..4 : actions[i].priority >= 2
    /\ Len(result.actions) = 2

\* C3: whatever collaborator fails at whatever phase, process_message does
\* not raise; it returns a response and an action list, and when a failure
\* reached the turn boundary the response is the apology with no actions.
C3_NeverRaises ==
    /\ ~raised
    /\ pc = "returned" =>
         /\ result.returned
         /\ result.response.kind # "none"
         /\ result.actions \in Seq([action_type : ActionKinds,
                                    status : {"success", "info", "error"},
                                    message : STRING])
         /\ boundary => /\ result.response = ApologyResponse
                        /\ result.actions = << >>

C3_Witness ==
    /\ pc = "returned"
    /\ boundary
    /\ EventsOf("generate") # {}
    /\ result.response = ApologyResponse

\* C4: when the profile lookup finds no profile, the turn returns
\* needs_profile = true with the onboarding prompt and no actions, without
\* loading context, planning or executing, and the conversation and memory
\* stores are as they were when the turn began.
C4_NoProfileShortCircuit ==
    (pc # "idle" /\ ~profiles[turn_user].exists) =>
        /\ log = << >>
        /\ memories = start.memories
        /\ conversations = start.conversations
        /\ actions = << >>
        /\ executed_actions = << >>
        /\ (pc = "returned" /\ ~boundary) =>
              /\ result.needs_profile
              /\ result.response = OnboardingResponse
              /\ result.actions = << >>

C4_Witness ==
    /\ pc = "returned"
    /\ ~boundary
    /\ ~profiles[turn_user].exists
    /\ result.needs_profile
    /\ conversations # << >>

\* the scenario of C5: the user's profile had gestation week 20 and one
\* document when the turn began, the message is a greeting, no collaborator
\* call failed, and the turn returned
GreetingScenario ==
    /\ pc = "returned"
    /\ ~faulty
    /\ start.profiles[turn_user].exists
    /\ start.profiles[turn_user].pregnancy_week = 20
    /\ start.profiles[turn_user].docs = 1
    /\ _detect_intent(turn_message) = "greeting"

PlannedKindsAndPriorities == [i \in DOMAIN actions |-> << actions[i].action_type, actions[i].priority >>]

PlansTheThree ==
    /\ Len(actions) = 3
    /\ { PlannedKindsAndPriorities[i] : i \in 1..3 } =
         { << "medical_review", 1 >>, << "pregnancy_update", 2 >>, << "pregnancy_education", 2 >> }

\* C5 as claimed: the greeting turn of a user with week 20 and one document
\* plans medical-review (1), pregnancy-update (2) and education (2),
\* executes all three, returns three result entries and inserts exactly
\* three new records.
C5_ExecutesAllThree ==
    GreetingScenario =>
        /\ PlansTheThree
        /\ Cardinality(EventsOf("exec")) = 3
        /\ Len(result.actions) = 3
        /\ Len(NewConversations) + Len(NewMemories) = 3

\* C5 amended: the turn plans pregnancy-update (2), education (2),
\* medical-review (1) in that order, executes only pregnancy-update and
\* then education, returns two result entries, and inserts one conversation
\* record, one pregnancy memory for the education and one more pregnancy
\* memory only if the stored week differs from the week computed from the
\* LMP date; it inserts no medical memory.
C5_ExecutesTopTwo ==
    GreetingScenario =>
        /\ PlannedKindsAndPriorities =
             << << "pregnancy_update", 2 >>, << "pregnancy_education", 2 >>,
                << "medical_review", 1 >> >>
        /\ [i \in DOMAIN result.actions |-> result.actions[i].action_type] =
             << "pregnancy_update", "pregnancy_education" >>
        /\ result.response.kind = "greeting"
        /\ Len(NewConversations) = 1
        /\ \A i \in DOMAIN NewMemories :
              /\ NewMemories[i].memory_type = "pregnancy"
              /\ NewMemories[i].user_id = turn_user
        /\ LET lmp == start.profiles[turn_user].lmp_days
               stale == lmp # NoLmp /\ calculate_pregnancy_week(lmp) # 20
           IN  Len(NewMemories) = IF stale THEN 2 ELSE 1

C5_Witness ==
    /\ GreetingScenario
    /\ Len(result.actions) = 2
    /\ Len(NewMemories) = 2

\* what the returned result shows of the planned actions: the executed
\* entries and the actions named in the response text
Surfaced ==
    { result.actions[i].action_type : i \in DOMAIN result.actions }
    \cup { result.response.mentions[i] : i \in DOMAIN result.response.mentions }

\* C6 as claimed: every planned action that is not executed because its
\* priority is below the threshold is surfaced in the turn's result.
C6_LowPrioritySurfaced ==
    NormalReturn =>
        \A i \in DOMAIN actions :
            actions[i].priority < 2 => actions[i].action_type \in Surfaced

\* C6 amended: a planned action below the threshold is never executed and
\* never appears in the result's action list; it is surfaced only in the
\* response text of a general-intent message, which names the first two
\* planned actions, and is otherwise absent from the result.
C6_LowPriorityDropped ==
    NormalReturn =>
        \A i \in DOMAIN actions :
            actions[i].priority < 2 =>
                /\ ~actions[i].completed
                /\ \A j \in DOMAIN result.actions :
                       result.actions[j].action_type # actions[i].action_type
                /\ actions[i].action_type \in Surfaced
                     <=> (_detect_intent(turn_message) = "general" /\ i <= 2)

C6_Witness ==
    /\ NormalReturn
    /\ _detect_intent(turn_message) = "general"
    /\ Len(actions) = 3
    /\ actions[3].priority = 1
    /\ actions[3].action_type \notin Surfaced
    /\ Len(result.actions) = 2

\* the memory records inserted by the last direct execute_action call
Inserted ==
    SubSeq(memories, Len(lastExec.memories_before) + 1, Len(memories))

\* C7 as claimed: when execute_action returns an info or error result the
\* action's completed flag is still false.
C7_NotCompletedOnFailure ==
    (lastExec.called /\ lastExec.status \in {"info", "error"}) => ~lastExec.completed

\* C7 amended: execute_action marks the action completed whenever its kind
\* is registered and the handler returned, whatever the status of the
\* result; completed stays false only for an unregistered kind.
C7_CompletedWhenDispatched ==
    lastExec.called =>
        /\ ~lastExec.completed_before
        /\ lastExec.completed <=> lastExec.invoked
        /\ lastExec.invoked <=> lastExec.action_type \in available_actions

C7_Witness ==
    /\ lastExec.called
    /\ lastExec.status = "info"
    /\ lastExec.action_type = "medical_review"
    /\ lastExec.completed

C9_AtMostOncePerAction ==
    /\ \A i, j \in EventsOf("exec") : log[i].idx = log[j].idx => i = j
    /\ Len(executed_actions) = Cardinality(EventsOf("exec"))
    /\ \A i \in DOMAIN actions : actions[i].completed <=> \E j \in EventsOf("exec") : log[j].idx = i

C9_Witness ==
    /\ NormalReturn
    /\ Cardinality(EventsOf("exec")) = 2
    /\ Len(NewMemories) = 2

\* C10: execute_action on an unregistered kind returns the unknown-action
\* error, invokes no handler, inserts no memory, changes no profile and
\* leaves completed false.
C10_UnknownAction ==
    (lastExec.called /\ lastExec.action_type \notin
        { "schedule_appointment", "upload_document", "medical_review",
          "pregnancy_update", "reminder", "emergency_contact",
          "pregnancy_education", "symptom_tracking", "contraction_tracking" }) =>
        /\ lastExec.status = "error"
        /\ lastExec.message = "Unknown action type"
        /\ ~lastExec.invoked
        /\ ~lastExec.generated
        /\ ~lastExec.completed
        /\ memories = lastExec.memories_before
        /\ profiles = lastExec.profiles_before

C10_Witness ==
    /\ lastExec.called
    /\ lastExec.action_type = UnknownKind
    /\ lastExec.status = "error"
    /\ memories # << >>

\* C11: whenever execute_action returns an info or error result, the call
\* inserted no memory record; a medical-review executed for a user with zero
\* documents (the profile store answering) returns an info result, makes no
\* content-generation call and inserts nothing.
C11_NoInsertOnInfoOrError ==
    lastExec.called =>
        /\ lastExec.status \in {"info", "error"} => memories = lastExec.memories_before
        /\ ( /\ lastExec.action_type = "medical_review"
             /\ lastExec.profiles_before[lastExec.user_id].docs = 0
             /\ ~lastExec.read_failed ) =>
               /\ lastExec.status = "info"
               /\ ~lastExec.generated
               /\ memories = lastExec.memories_before

C11_Witness ==
    /\ lastExec.called
    /\ lastExec.action_type = "medical_review"
    /\ lastExec.profiles_before[lastExec.user_id].exists
    /\ lastExec.profiles_before[lastExec.user_id].docs = 0
    /\ lastExec.status = "info"
    /\ memories # << >>
    /\ memories = lastExec.memories_before

KindsAndPriorities(acts) ==
    [i \in DOMAIN acts |-> << acts[i].action_type, acts[i].priority >>]

Emits(acts, kind, prio) ==
    \E i \in DOMAIN acts : acts[i].action_type = kind /\ acts[i].priority = prio

\* C12: for every profile the planner reads, it emits pregnancy-update (2)
\* iff the gestation week is known, medical-review (1) iff the profile has
\* at least one document, education (2) iff the week is known and greater
\* than zero; it emits nothing else and at most one action of each kind.
C12_PlannerPredicates ==
    (lastPlan.called /\ ~lastPlan.read_failed) =>
        LET acts == lastPlan.actions
            profile == lastPlan.profile
        IN  /\ ~profile.exists => acts = << >>
            /\ Emits(acts, "pregnancy_update", 2) <=> profile.pregnancy_week # NoWeek
            /\ Emits(acts, "medical_review", 1) <=> profile.docs >= 1
            /\ Emits(acts, "pregnancy_education", 2) <=>
                  (profile.pregnancy_week # NoWeek /\ profile.pregnancy_week > 0)
            /\ \A i \in DOMAIN acts :
                  KindsAndPriorities(acts)[i] \in
                      { << "pregnancy_update", 2 >>, << "medical_review", 1 >>,
                        << "pregnancy_education", 2 >> }
            /\ \A i, j \in DOMAIN acts :
                  acts[i].action_type = acts[j].action_type => i = j

C12_Witness ==
    /\ lastPlan.called
    /\ ~lastPlan.read_failed
    /\ lastPlan.profile.pregnancy_week = NoWeek
    /\ lastPlan.profile.docs = 1
    /\ KindsAndPriorities(lastPlan.actions) = << << "medical_review", 1 >> >>
    /\ prevPlan.called
    /\ ~prevPlan.read_failed
    /\ prevPlan.profile.docs = 0
    /\ Len(prevPlan.actions) = 2

\* the position at which an action of the sorted list was appended
EmittedAt(a) == CHOOSE i \in DOMAIN emitted : emitted[i] = a

\* C13: the planner's output is ordered by priority descending and actions
\* of equal priority keep the order in which they were appended; the list
\* appended as [A(1), B(2), C(1), D(3)] is returned as [D(3), B(2), A(1), C(1)].
C13_StableByPriority ==
    planned.returned =>
        LET out == planned.actions IN
        /\ Len(out) = Len(emitted)
        /\ \A i \in DOMAIN emitted : \E j \in DOMAIN out : out[j] = emitted[i]
        /\ \A i, j \in DOMAIN out :
              i < j => \/ out[i].priority > out[j].priority
                       \/ /\ out[i].priority = out[j].priority
                          /\ EmittedAt(out[i]) < EmittedAt(out[j])
        /\ [i \in DOMAIN emitted |-> emitted[i].priority] = << 1, 2, 1, 3 >> =>
              [i \in DOMAIN out |-> out[i].action_type] =
                  << SortKinds[4], SortKinds[2], SortKinds[1], SortKinds[3] >>

C13_Witness ==
    /\ planned.returned
    /\ [i \in DOMAIN emitted |-> emitted[i].priority] = << 1, 2, 1, 3 >>
    /\ KindsAndPriorities(planned.actions) =
         << << SortKinds[4], 3 >>, << SortKinds[2], 2 >>,
            << SortKinds[1], 1 >>, << SortKinds[3], 1 >> >>

SimilarityOf(i) ==
    _cosine_similarity(search.query_embedding, search.document_embeddings[i + 1])

\* C19: for a non-empty candidate list and top_k >= 0, similarity_search
\* returns exactly min(top_k, number of candidates) distinct valid candidate
\* indices: none when top_k is 0, all when top_k exceeds the count.
C19_ReturnsMinTopK ==
    (search.called /\ search.document_embeddings # << >>) =>
        LET n == Len(search.document_embeddings)
            res == search.result
        IN  /\ Len(res) = Min(search.top_k, n)
            /\ \A i \in DOMAIN res : res[i] \in 0..(n - 1)
            /\ \A i, j \in DOMAIN res : res[i] = res[j] => i = j

\* C20: similarity_search (asked for at least one index) returns its indices
\* by similarity descending, and of two candidates with equal similarity the
\* one with the smaller original index comes first.
C20_TiesByIndex ==
    (search.called /\ search.top_k >= 1) =>
        \A i, j \in DOMAIN search.result :
            i < j => \/ SimLess(SimilarityOf(search.result[j]), SimilarityOf(search.result[i]))
                     \/ /\ SimEqual(SimilarityOf(search.result[i]), SimilarityOf(search.result[j]))
                        /\ search.result[i] < search.result[j]

\* the user of the retrieval has no memory in the store
NoMemoryOfUser == \A i \in DOMAIN memories : memories[i].user_id # retrieval.user_id

\* the first n entries of a list
FirstEntries(docs, n) == SubSeq(docs, 1, Min(n, Len(docs)))

\* C15: if the embedding provider fails on every call (and the store
\* answers), get_relevant_memories does not raise and returns exactly the
\* first `limit` entries of the user's memories in the candidate ordering
\* (last-accessed descending, then importance descending).
C15_FallbackFirstLimit ==
    ( /\ retrieval.pc = "done"
      /\ retrieval.loaded
      /\ retrieval.find_failures = 0
      /\ retrieval.embed_calls >= 1
      /\ retrieval.embed_ok = 0 ) =>
        /\ ~retrieval.raised
        /\ \E candidates \in find_sorted(retrieval.user_id, memories) :
              retrieval.returned = FirstEntries(candidates, retrieval.limit)

\* C16: when retrieval falls back after an embedding or ranking failure, it
\* does not raise and its result is a prefix of the candidate list the call
\* loaded in its first step.
C16_FallbackUsesLoadedList ==
    ( /\ retrieval.pc = "done"
      /\ retrieval.loaded
      /\ retrieval.path = "fallback" ) =>
        /\ ~retrieval.raised
        /\ Len(retrieval.returned) <= Len(retrieval.all_memories)
        /\ \A i \in DOMAIN retrieval.returned :
              retrieval.returned[i] = retrieval.all_memories[i]

\* C17: get_relevant_memories for a user with zero memories returns the
\* empty list, without calling the embedding provider or the ranker, and
\* without error (it raises only when both finds of the store fail).
C17_EmptyReturnsEmpty ==
    (retrieval.pc = "done" /\ NoMemoryOfUser) =>
        /\ retrieval.returned = << >>
        /\ retrieval.embed_calls = 0
        /\ ~retrieval.ranked
        /\ retrieval.raised <=> retrieval.find_failures = 2
        /\ retrieval.find_failures = 0 => retrieval.path = "empty"

C17_Witness ==
    /\ retrieval.pc = "done"
    /\ NoMemoryOfUser
    /\ memories # << >>
    /\ retrieval.find_failures = 0
    /\ retrieval.path = "empty"
    /\ retrieval.returned = << >>

\* C18: no step of get_relevant_memories, on the ranking path or on the
\* fallback path, changes a stored memory record; the last-accessed time of
\* a record changes only in an update_memory_access.
C18_RetrievalLeavesStore ==
    [][ /\ retrieval' # retrieval => memories' = memories
        /\ \A i \in DOMAIN memories :
              memories'[i].last_accessed # memories[i].last_accessed => lastOp' = "touch"
      ]_vars

C18_Witness ==
    /\ retrieval.pc = "done"
    /\ retrieval.path \in {"ranked", "fallback"}
    /\ ~retrieval.raised
    /\ Len(retrieval.returned) = 2
    /\ \E i \in DOMAIN memories : memories[i].last_accessed > memories[i].created_at
    /\ \E i \in DOMAIN memories :
          /\ memories[i].id = retrieval.returned[1].id
          /\ memories[i].last_accessed = memories[i].created_at

\* ------------------------------------------------------------------------
\* C21: update_memory_access called with the string that store_memory
\* returned for an existing memory sets that memory's last-accessed time to
\* the current instant and changes no other field and no other record.
\* ------------------------------------------------------------------------
ReturnedIds == { id \in MemoryIds : id.form = "str" }

C21_TouchSetsLastAccessed ==
    [][ \A memory_id \in ReturnedIds :
          (Touch(memory_id) /\ memory_id.n \in DOMAIN memories)
          => memories' = [memories EXCEPT ![memory_id.n].last_accessed = clock]
      ]_vars

\* ------------------------------------------------------------------------
\* C22: the memory store is append-only.  No step deletes a record, and no
\* step changes a field of an existing record other than last_accessed.
\* ------------------------------------------------------------------------
SameButLastAccessed(old, new) ==
    [new EXCEPT !.last_accessed = old.last_accessed] = old

C22_AppendOnly ==
    [][ /\ Len(memories') >= Len(memories)
        /\ \A i \in DOMAIN memories : SameButLastAccessed(memories[i], memories'[i])
      ]_vars

C22_Witness ==
    /\ Len(memories) = MaxMemories
    /\ \E i \in DOMAIN memories : memories[i].last_accessed > memories[i].created_at
    /\ \E i \in DOMAIN memories : memories[i].last_accessed = memories[i].created_at
    /\ retrieval.pc = "rank"
    /\ lastOp = "find"

\* ------------------------------------------------------------------------
\* C23: when two pregnancy-update executions run concurrently, the stores
\* they leave are stores that the two executions, run one after the other in
\* some order, could also leave.
\* ------------------------------------------------------------------------
Stored(M) ==
    [i \in DOMAIN M |-> Memory(M[i].user_id, M[i].memory_type, M[i].importance, M[i].week)]

\* what running the execution of worker a and then the execution of worker
\* b leaves, for every outcome of their collaborator calls
SerialOutcomes(P) ==
    { LET a == x[1][1]
          b == x[1][2]
          first == _pregnancy_update(updates[a].user_id, updates[a].context, x[2], P)
          second == _pregnancy_update(updates[b].user_id, updates[b].context, x[3],
                                      first.profiles)
      IN  [profiles |-> second.profiles, inserts |-> first.inserts \o second.inserts]
      : x \in { y \in Workers \X Workers : y[1] # y[2] } \X Outcomes \X Outcomes }

BothDone == \A w \in Workers : updates[w].pc = "done"

C23_Serialisable ==
    BothDone => [profiles |-> profiles, inserts |-> Stored(memories)]
                    \in SerialOutcomes(start.profiles)

\* ------------------------------------------------------------------------
\* C24: the value a content-generation call hands to its handler is a
\* mapping, and it is the fixed default mapping when the endpoint fails or
\* answers with a text that is not a JSON object.
\* ------------------------------------------------------------------------
C24_GenerationReturnsMapping ==
    \A w \in Workers :
       (updates[w].pc # "idle" /\ updates[w].ai # "none")
       => /\ updates[w].week_insights \in {"mapping", "default_mapping"}
          /\ updates[w].ai \in {"transport_error", "non_json", "json_non_object"}
                => updates[w].week_insights = "default_mapping"

\* ------------------------------------------------------------------------
\* C25 as claimed: a store failure while the turn loads its context ends
\* the turn with the apology, an empty action list and no executed action,
\* and no failure of a later phase makes the turn return the apology.
\* ------------------------------------------------------------------------
\* _get_conversation_context ran and a store call inside it failed
LoadFailed == EventsOf("load") # {} /\ conversation_context = EmptyContext

\* the profile lookup that opens the turn failed
LookupFailed == boundary /\ log = << >>

EnumeratedKinds == {"generic", "medical", "pregnancy-stage", "task", "conversation"}

SpecKind(memory_type) ==
    IF memory_type = "pregnancy" THEN "pregnancy-stage" ELSE memory_type

C26_KindsEnumerated ==
    \A i \in DOMAIN memories : SpecKind(memories[i].memory_type) \in EnumeratedKinds

\* the memory_type each handler passes to the store
KindOf(action_type) ==
    CASE action_type = "medical_review" -> "medical"
      [] action_type = "schedule_appointment" -> "appointment"
      [] action_type = "reminder" -> "reminder"
      [] OTHER -> "pregnancy"

\* C26 amended: every memory record inserted by a handler has a kind of
\* {medical, pregnancy, appointment, reminder}: medical-review inserts
\* "medical", schedule-appointment "appointment", reminder "reminder" and
\* every other inserting handler "pregnancy"; conversation records have the
\* type "conversation".  The kinds generic and task are never used.
C26_KindsUsed ==
    /\ \A i \in DOMAIN memories :
          memories[i].memory_type \in {"medical", "pregnancy", "appointment", "reminder"}
    /\ \A i \in DOMAIN conversations : conversations[i].type = "conversation"
    /\ lastExec.called =>
          \A i \in DOMAIN Inserted : Inserted[i].memory_type = KindOf(lastExec.action_type)

C26_Witness ==
    /\ lastExec.called
    /\ lastExec.status = "success"
    /\ lastExec.action_type = "schedule_appointment"
    /\ Len(memories) = 2
    /\ memories[1].memory_type = "reminder"
    /\ memories[2].memory_type = "appointment"

\* ------------------------------------------------------------------------
\* C27: what process_message returns carries no exception text, neither in
\* the response nor in the message of an executed-action result; the message
\* of an error result is one of a fixed set of messages.
\* ------------------------------------------------------------------------
FixedErrorMessages == {"Unknown action type"}

C27_NoExceptionText ==
    (pc = "returned" /\ result.returned) =>
        \A i \in DOMAIN result.actions :
           /\ result.actions[i].message # ExceptionText
           /\ result.actions[i].status = "error"
                 => result.actions[i].message \in FixedErrorMessages

\* ------------------------------------------------------------------------
\* C28: a pregnancy-update execution that returns an error result leaves
\* the stored profile as it was, so the week is still stale for the next
\* execution.
\* ------------------------------------------------------------------------
StaleWeek(profile) ==
    /\ profile.exists
    /\ profile.lmp_days # NoLmp
    /\ calculate_pregnancy_week(profile.lmp_days) # profile.pregnancy_week

C28_ErrorLeavesProfile ==
    ( /\ lastExec.called
      /\ lastExec.action_type = "pregnancy_update"
      /\ lastExec.status = "error" ) =>
        /\ profiles = lastExec.profiles_before
        /\ StaleWeek(lastExec.profiles_before[lastExec.user_id])
              => StaleWeek(profiles[lastExec.user_id])

\* ------------------------------------------------------------------------
\* C29: when a turn returns the apology, no action was executed in it, no
\* conversation record was persisted and no memory was inserted; the
\* profile, memory and conversation stores are as they were when the turn
\* began.
\* ------------------------------------------------------------------------
ReturnedApology ==
    /\ pc = "returned"
    /\ result.returned
    /\ result.response = ApologyResponse

C29_ApologyLeavesStores ==
    ReturnedApology =>
        /\ EventsOf("exec") = {}
        /\ EventsOf("store") = {}
        /\ executed_actions = << >>
        /\ Snapshot = start

C29_Witness ==
    /\ ReturnedApology
    /\ EventsOf("plan") # {}
    /\ Len(actions) >= 2
    /\ conversations # << >>
    /\ memories # << >>
    /\ Snapshot = start

\* ------------------------------------------------------------------------
\* C30: a pregnancy-update execution that follows a successful one for the
\* same user, on the same date and with its profile read succeeding, returns
\* an info result, leaves the profile unchanged and inserts no memory; the
\* week a successful execution stores lies in 1..42.
\* ------------------------------------------------------------------------
UpdateSucceeded ==
    /\ lastExec.called
    /\ lastExec.action_type = "pregnancy_update"
    /\ lastExec.status = "success"

StoredWeekInRange ==
    UpdateSucceeded =>
        /\ profiles[lastExec.user_id].pregnancy_week \in MinWeek..MaxWeek
        /\ \A i \in DOMAIN Inserted : Inserted[i].week \in MinWeek..MaxWeek

RepeatedUpdateIsInfo ==
    ( /\ UpdateSucceeded
      /\ directCount' = directCount + 1
      /\ lastExec'.action_type = "pregnancy_update"
      /\ lastExec'.user_id = lastExec.user_id
      /\ ~lastExec'.read_failed ) =>
        /\ lastExec'.status = "info"
        /\ profiles' = profiles
        /\ memories' = memories

C30_Idempotent == [](StoredWeekInRange) /\ [][RepeatedUpdateIsInfo]_vars

C30_Witness ==
    /\ lastExec.called
    /\ lastExec.action_type = "pregnancy_update"
    /\ lastExec.user_id = "u1"
    /\ lastExec.status = "info"
    /\ directCount = 2
    /\ profiles["u1"].pregnancy_week = MaxWeek
    /\ profiles = lastExec.profiles_before
    /\ Len(memories) = 1
    /\ memories[1].week = MaxWeek
    /\ memories = lastExec.memories_before

====
